---- MODULE Spec2Model ----
(***************************************************************************)
(* Model of the Webex notification channel of Grafana, in its four         *)
(* generations:                                                            *)
(*   "ngWebhook"     ngalert channel, incoming webhook  (webex.go 1-138)   *)
(*   "ngRoom"        ngalert channel, room API          (webex.go 140-293) *)
(*   "legacyWebhook" legacy notifier, incoming webhook  (unnamed/part_000) *)
(*   "legacyRoom"    legacy notifier, room API          (unnamed/part_001) *)
(*                                                                         *)
(* Go strings that are concatenated or formatted are sequences of string   *)
(* pieces (the empty Go string is the empty sequence), so that a format    *)
(* is a concatenation and emptiness is decidable.  Settings values are     *)
(* JSON values: absent, a number, or a string.                             *)
(***************************************************************************)
EXTENDS Naturals, Sequences, FiniteSets, TLC

VARIABLES
    fc,        \* the FactoryConfig / AlertNotification handed to the factory
    notifier,  \* the notifier the factory returned (Nil when none)
    facErr,    \* the error the factory returned ("" when none)
    call,      \* the Notify call: its input, its sends, whether it returned, its result
    srSeen,    \* the answers SendResolved() has given so far
    pc,        \* per concurrent caller: the step of its attempt
    frame,     \* per concurrent caller: the locals of its Notify call
    sent,      \* per concurrent caller: the commands its attempt sent
    ret        \* per concurrent caller: what its Notify returned

vars == <<fc, notifier, facErr, call, srSeen, pc, frame, sent, ret>>

----------------------------------------------------------------------------
(* Bounds *)

MaxAlerts == 2
NumCallers == 2

Callers == 1..NumCallers

----------------------------------------------------------------------------
(* Values *)

Versions == {"ngWebhook", "ngRoom", "legacyWebhook", "legacyRoom"}
NgVersions == {"ngWebhook", "ngRoom"}
WebhookVersions == {"ngWebhook", "legacyWebhook"}
RoomVersions == {"ngRoom", "legacyRoom"}

\* JSON values of a settings blob.
Absent == [t |-> "absent", s |-> ""]
Number == [t |-> "number", s |-> ""]
JStr(s) == [t |-> "string", s |-> s]

JsonValues(v) == {Absent, Number, JStr(""), JStr(v)}

\* A Go string as a sequence of pieces.
Str(s) == IF s = "" THEN <<>> ELSE <<s>>

DefaultTemplate == "{{ template \"default.message\" . }}"
DefaultMessageTitleEmbed == "{{ template \"default.title\" . }}"

\* simplejson MustString(): the string when the value is a string, the
\* default otherwise.
MustString(j, def) == IF j.t = "string" THEN j.s ELSE def

\* The secure-settings store: the decrypted value of the version's secret
\* key, when the store holds the key.
NoSecure == [has |-> FALSE, value |-> ""]
SecureStores == {NoSecure, [has |-> TRUE, value |-> ""], [has |-> TRUE, value |-> "tok"]}

\* GetDecryptedValueFn: the stored value when the store has the key, the
\* plaintext fallback otherwise.
decryptFunc(secure, fallback) == IF secure.has THEN secure.value ELSE fallback

Settings(v) ==
    CASE v = "ngWebhook" ->
           [webhook_url : JsonValues("https://example.test/hook"),
            message : {Absent, JStr(""), JStr("custom")}]
      [] v = "legacyWebhook" ->
           [webhook_url : JsonValues("https://example.test/hook"),
            content : {Absent, JStr(""), JStr("custom")}]
      [] v = "ngRoom" ->
           [url : JsonValues("https://example.test"),
            room_id : JsonValues("R1"),
            api_secret : {Absent, JStr(""), JStr("raw")}]
      [] v = "legacyRoom" ->
           [url : JsonValues("https://example.test"),
            webexToken : {Absent, JStr(""), JStr("raw")},
            roomId : JsonValues("R1")]

FactoryConfigs(v) ==
    [version : {v},
     Settings : Settings(v),
     SecureSettings : IF v \in RoomVersions THEN SecureStores ELSE {NoSecure},
     DisableResolveMessage : IF v \in NgVersions THEN BOOLEAN ELSE {FALSE}]

NoFC == [version |-> "none"]
Nil == [version |-> "nil"]

----------------------------------------------------------------------------
(* Construction *)

\* ngalert, incoming webhook: NewWebexConfig.
NewWebexConfigWebhook(config) ==
    LET webhookUrl == MustString(config.Settings.webhook_url, "") IN
    IF webhookUrl = ""
    THEN [cfg |-> Nil, err |-> "could not find Webex Webhook URL in settings"]
    ELSE [cfg |-> [DisableResolveMessage |-> config.DisableResolveMessage,
                   WebhookURL |-> webhookUrl,
                   Content |-> MustString(config.Settings.message, DefaultTemplate)],
          err |-> ""]

\* Variant of NewWebexConfigRoom that does not check the API secret.
NewWebexConfigRoomNoSecretCheck(config) ==
    LET webexUrl == MustString(config.Settings.url, "")
        roomID == MustString(config.Settings.room_id, "")
        apiSecret == decryptFunc(config.SecureSettings,
                                 MustString(config.Settings.api_secret, ""))
    IN
    IF webexUrl = ""
    THEN [cfg |-> Nil, err |-> "could not find Webex URL in settings"]
    ELSE IF roomID = ""
    THEN [cfg |-> Nil, err |-> "could not find Webex Room ID in settings"]
    ELSE [cfg |-> [DisableResolveMessage |-> config.DisableResolveMessage,
                   URL |-> webexUrl,
                   RoomID |-> roomID,
                   APISecret |-> apiSecret],
          err |-> ""]

\* ngalert, room API: NewWebexConfig.
NewWebexConfigRoom(config) ==
    LET webexUrl == MustString(config.Settings.url, "")
        roomID == MustString(config.Settings.room_id, "")
        apiSecret == decryptFunc(config.SecureSettings,
                                 MustString(config.Settings.api_secret, ""))
    IN
    IF webexUrl = ""
    THEN [cfg |-> Nil, err |-> "could not find Webex URL in settings"]
    ELSE IF roomID = ""
    THEN [cfg |-> Nil, err |-> "could not find Webex Room ID in settings"]
    ELSE IF apiSecret = ""
    THEN [cfg |-> Nil, err |-> "could not find Webex API secret in settings"]
    ELSE [cfg |-> [DisableResolveMessage |-> config.DisableResolveMessage,
                   URL |-> webexUrl,
                   RoomID |-> roomID,
                   APISecret |-> apiSecret],
          err |-> ""]

\* ngalert, incoming webhook: NewWebexNotifier.  Base keeps the
\* DisableResolveMessage of the config.
NewWebexNotifierWebhook(config) ==
    [version |-> "ngWebhook",
     Base |-> [DisableResolveMessage |-> config.DisableResolveMessage],
     WebhookURL |-> config.WebhookURL,
     Content |-> config.Content]

\* ngalert, room API: NewWebexNotifier.
NewWebexNotifierRoom(config) ==
    [version |-> "ngRoom",
     Base |-> [DisableResolveMessage |-> config.DisableResolveMessage],
     URL |-> config.URL,
     RoomID |-> config.RoomID,
     APISecret |-> config.APISecret]

\* ngalert WebexFactory, incoming webhook.
WebexFactoryWebhook(config) ==
    LET r == NewWebexConfigWebhook(config) IN
    IF r.err # ""
    THEN [notifier |-> Nil, err |-> r.err]
    ELSE [notifier |-> NewWebexNotifierWebhook(r.cfg), err |-> ""]

\* ngalert WebexFactory, room API.
WebexFactoryRoom(config) ==
    LET r == NewWebexConfigRoom(config) IN
    IF r.err # ""
    THEN [notifier |-> Nil, err |-> r.err]
    ELSE [notifier |-> NewWebexNotifierRoom(r.cfg), err |-> ""]

\* legacy, incoming webhook: NewWebexNotifier.
LegacyNewWebexNotifierWebhook(model) ==
    LET webhookURL == MustString(model.Settings.webhook_url, "")
        content == MustString(model.Settings.content, "")
    IN
    IF webhookURL = ""
    THEN [notifier |-> Nil, err |-> "Could not find webhook_url property in settings"]
    ELSE [notifier |-> [version |-> "legacyWebhook",
                        WebhookURL |-> webhookURL,
                        Content |-> content],
          err |-> ""]

\* legacy, room API: NewWebexNotifier.  The decrypt function is ignored.
LegacyNewWebexNotifierRoom(model) ==
    LET url == MustString(model.Settings.url, "")
        webexApiToken == MustString(model.Settings.webexToken, "")
        webexRoomId == MustString(model.Settings.roomId, "")
    IN
    IF url = ""
    THEN [notifier |-> Nil, err |-> "Could not find url property in settings"]
    ELSE IF webexApiToken = ""
    THEN [notifier |-> Nil, err |-> "Could not find webexToken property in settings"]
    ELSE IF webexRoomId = ""
    THEN [notifier |-> Nil, err |-> "Could not find roomId property in settings"]
    ELSE [notifier |-> [version |-> "legacyRoom",
                        URL |-> url,
                        ApiToken |-> webexApiToken,
                        RoomId |-> webexRoomId],
          err |-> ""]

\* The constructor of the generation the configuration belongs to.
Construct(config) ==
    CASE config.version = "ngWebhook" -> WebexFactoryWebhook(config)
      [] config.version = "ngRoom" -> WebexFactoryRoom(config)
      [] config.version = "legacyWebhook" -> LegacyNewWebexNotifierWebhook(config)
      [] config.version = "legacyRoom" -> LegacyNewWebexNotifierRoom(config)

----------------------------------------------------------------------------
(* Inputs of Notify *)

AlertStatuses == {"firing", "resolved"}

\* What the image store holds for an alert: an image with a URL, an image
\* with an empty URL, or a failure to fetch it.
ImageOutcomes == {"", "https://img.test/1.png", "fetch-error"}

Alert == [status : AlertStatuses, image : ImageOutcomes]

RECURSIVE SeqsUpTo(_, _)
SeqsUpTo(S, n) ==
    IF n = 0 THEN {<<>>}
    ELSE LET shorter == SeqsUpTo(S, n - 1) IN
         shorter \cup {Append(q, x) : q \in {r \in shorter : Len(r) = n - 1}, x \in S}

AlertBatches == SeqsUpTo(Alert, MaxAlerts)

\* What the templating engine does in a call: renders both templates, fails
\* on the title, or fails on the message.
RenderOutcomes == {"ok", "titleErr", "contentErr"}

NgInputs == [as : AlertBatches, render : RenderOutcomes]

\* models.AlertStateType
AlertStates == {"no_data", "paused", "alerting", "ok", "pending", "unknown"}

\* The legacy EvalContext: the rule's state, name and message, and the
\* title GetNotificationTitle() gives.
EvalContexts ==
    [State : AlertStates, Title : {"[Alerting] cpu"}, Name : {"cpu"}, Message : {"", "cpu is high"}]

Inputs(v) == IF v \in NgVersions THEN NgInputs ELSE EvalContexts

\* What SendWebhookSync returns: "" is nil.
TransportErrs == {"", "connection refused", "context canceled"}

----------------------------------------------------------------------------
(* Rendering *)

WarningSign == "U+26A0 U+FE0F "
CheckMark == "U+2705 "
QuestionMark == "U+2753 U+FE0F "

\* model.Alerts.Status(): firing when some alert of the batch is firing,
\* resolved otherwise.
Status(as) ==
    IF \E i \in 1..Len(as) : as[i].status = "firing" THEN "firing" ELSE "resolved"

\* Variant of stateEmoji that looks at the first alert only.
stateEmojiFirstAlert(as) ==
    IF as = <<>> \/ as[1].status = "resolved" THEN CheckMark ELSE WarningSign

\* ngalert Notify, "Determine emoji".
stateEmoji(as) == IF Status(as) = "resolved" THEN CheckMark ELSE WarningSign

\* legacy Notify, "Determine emoji".
legacyStateEmoji(state) ==
    CASE state = "ok" -> CheckMark
      [] state = "no_data" -> QuestionMark
      [] state = "alerting" -> WarningSign
      [] OTHER -> ""

\* The text the templating engine gives for a template.
Rendered(template) == IF template = "" THEN <<>> ELSE <<"rendered:", template>>

\* TmplText: the function tmpl and the error it leaves in tmplErr.  Once a
\* template failed, tmpl gives "" for it and for every later template.
TmplText(render, title, content) ==
    [title |-> IF render = "titleErr" THEN <<>> ELSE Rendered(title),
     content |-> IF render = "ok" THEN Rendered(content) ELSE <<>>,
     tmplErr |-> IF render = "ok" THEN "" ELSE "template: execution failed"]

AlertListURL == "http:/grafana.test/alerting/list"

\* withStoredImages with the callback of Notify: the lines the callback
\* appends, one for every stored image that has a URL; an image that cannot
\* be fetched is skipped.
RECURSIVE withStoredImages(_)
withStoredImages(as) ==
    IF as = <<>> THEN <<>>
    ELSE LET image == Head(as).image
             line == IF image \in {"", "fetch-error"}
                     THEN <<>>
                     ELSE <<"*Image:* ", image, "\n">>
         IN line \o withStoredImages(Tail(as))

\* ngalert Notify, incoming webhook: "Build message" and the images
\* appended to it.  The message template is tn.Content.
BuildMessageWebhook(tn, in) ==
    LET t == TmplText(in.render, DefaultMessageTitleEmbed, tn.Content) IN
    Str(stateEmoji(in.as)) \o t.title \o <<"\n\n*Message:*\n">> \o t.content
        \o <<"\n*URL:* ">> \o Str(AlertListURL) \o <<"\n">>
        \o withStoredImages(in.as)

\* ngalert Notify, room API: "Build message" and the images appended to it.
\* The message template is the default one.
BuildMessageRoom(tn, in) ==
    LET t == TmplText(in.render, DefaultMessageTitleEmbed, DefaultTemplate) IN
    Str(stateEmoji(in.as)) \o t.title \o <<"\n\n*Message:*\n">> \o t.content
        \o <<"\n*URL:* ">> \o Str(AlertListURL) \o <<"\n">>
        \o withStoredImages(in.as)

\* legacy Notify, "Build message".
LegacyBuildMessage(evalContext) ==
    Str(legacyStateEmoji(evalContext.State)) \o Str(evalContext.Title)
        \o <<"\n\n*State:* ">> \o Str(evalContext.Name)
        \o <<"\n*Message:* ">> \o Str(evalContext.Message) \o <<"\n">>

----------------------------------------------------------------------------
(* Payload *)

\* json.Marshal of a map of strings: the members in key order.  It cannot
\* fail on such a map.
KeyOrder == <<"markdown", "roomId">>

Marshal(body) ==
    LET keys == SelectSeq(KeyOrder, LAMBDA k : \E m \in body : m[1] = k) IN
    [i \in 1..Len(keys) |-> CHOOSE m \in body : m[1] = keys[i]]

\* ngalert Notify, incoming webhook: body, headers and command.
CommandWebhook(tn, message) ==
    LET body == {<<"markdown", message>>}
        headers == {}
    IN [Url |-> tn.WebhookURL,
        Body |-> Marshal(body),
        HttpMethod |-> "POST",
        ContentType |-> "application/json; charset=utf-8",
        HttpHeader |-> headers]

\* ngalert Notify, room API: body, headers and command.
CommandRoom(tn, message) ==
    LET body == {<<"roomId", Str(tn.RoomID)>>, <<"markdown", message>>}
        headers == {<<"Authorization", <<"Bearer ", tn.APISecret>>>>}
    IN [Url |-> tn.URL,
        Body |-> Marshal(body),
        HttpMethod |-> "POST",
        ContentType |-> "application/json; charset=utf-8",
        HttpHeader |-> headers]

\* legacy Notify, incoming webhook: body and command.  markdown is set when
\* the Content setting is not empty.
LegacyCommandWebhook(wn, message) ==
    LET body == IF wn.Content # "" THEN {<<"markdown", message>>} ELSE {} IN
    [Url |-> wn.WebhookURL,
     Body |-> Marshal(body),
     HttpMethod |-> "POST",
     ContentType |-> "application/json; charset=utf-8",
     HttpHeader |-> {}]

\* legacy Notify, room API: body, headers and command.
LegacyCommandRoom(wn, message) ==
    LET body == {<<"roomId", Str(wn.RoomId)>>, <<"markdown", message>>}
        headers == {<<"Authorization", <<"Bearer ", wn.ApiToken>>>>}
    IN [Url |-> wn.URL,
        Body |-> Marshal(body),
        HttpMethod |-> "POST",
        ContentType |-> "application/json; charset=utf-8",
        HttpHeader |-> headers]

\* The message of a call, by generation.
Message(n, in) ==
    CASE n.version = "ngWebhook" -> BuildMessageWebhook(n, in)
      [] n.version = "ngRoom" -> BuildMessageRoom(n, in)
      [] OTHER -> LegacyBuildMessage(in)

\* The command of a call, by generation.
Command(n, message) ==
    CASE n.version = "ngWebhook" -> CommandWebhook(n, message)
      [] n.version = "ngRoom" -> CommandRoom(n, message)
      [] n.version = "legacyWebhook" -> LegacyCommandWebhook(n, message)
      [] n.version = "legacyRoom" -> LegacyCommandRoom(n, message)

----------------------------------------------------------------------------
(* Notify and SendResolved *)

\* The end of Notify: (false, err) when SendWebhookSync returned an error,
\* (true, nil) otherwise.  The legacy Notify returns the error alone;
\* delivered is then the absence of the error.
Return(err) == IF err # "" THEN [delivered |-> FALSE, err |-> err]
               ELSE [delivered |-> TRUE, err |-> ""]

\* What a call holds while it has not returned.
Pending == [delivered |-> FALSE, err |-> ""]

\* Variant of NotifySend that returns the template error without sending.
NotifySendAbortOnTmplErr(tn, in) ==
    LET message == Message(tn, in)
        cmd == Command(tn, message)
        tmplErr == IF tn.version \in NgVersions
                   THEN TmplText(in.render, DefaultMessageTitleEmbed, DefaultTemplate).tmplErr
                   ELSE ""
    IN IF tmplErr # ""
       THEN [sends |-> <<>>, returned |-> TRUE, ret |-> [delivered |-> FALSE, err |-> tmplErr]]
       ELSE [sends |-> <<cmd>>, returned |-> FALSE, ret |-> Pending]

\* Notify up to the call of SendWebhookSync: the message is rendered, the
\* command is built and handed to the transport, and the call waits.  The
\* template error is logged, the result of withStoredImages and the error
\* of json.Marshal are dropped; Notify does not return before the transport
\* answers.
NotifySend(tn, in) ==
    LET message == Message(tn, in)
        cmd == Command(tn, message)
    IN [sends |-> <<cmd>>, returned |-> FALSE, ret |-> Pending]

\* Variant of NotifyReturn that sends again when the transport failed.
NotifyReturnRetry(sends, transportErr) ==
    [sends |-> IF transportErr # "" THEN Append(sends, sends[1]) ELSE sends,
     returned |-> TRUE,
     ret |-> Return(transportErr)]

\* Notify from the answer of SendWebhookSync on: the error is logged and
\* returned, or (true, nil) is returned; nothing more is sent.
NotifyReturn(sends, transportErr) ==
    [sends |-> sends, returned |-> TRUE, ret |-> Return(transportErr)]

\* Notify as a whole, run alone: the commands it hands to SendWebhookSync,
\* and what it returns when the transport returns transportErr.
Notify(tn, in, transportErr) ==
    LET s == NotifySend(tn, in) IN
    IF s.returned THEN s ELSE NotifyReturn(s.sends, transportErr)

\* Variant of SendResolved without the negation.
SendResolvedNotNegated(tn) == tn.Base.DisableResolveMessage

\* SendResolved of the ngalert notifier.
SendResolved(tn) == ~ tn.Base.DisableResolveMessage

----------------------------------------------------------------------------
(* State *)

NoCall == [made |-> FALSE]
NoFrame == [in |-> <<>>, rendered |-> FALSE, message |-> <<>>, built |-> FALSE, cmd |-> <<>>]
NoRet == [called |-> FALSE]

Built == notifier.version # "nil"

Init ==
    /\ fc = NoFC
    /\ notifier = Nil
    /\ facErr = ""
    /\ call = NoCall
    /\ srSeen = {}
    /\ pc = [c \in Callers |-> "idle"]
    /\ frame = [c \in Callers |-> NoFrame]
    /\ sent = [c \in Callers |-> <<>>]
    /\ ret = [c \in Callers |-> NoRet]

\* The factory is called once, with a configuration of one generation.
WebexFactory ==
    /\ fc = NoFC
    /\ \E v \in Versions : \E config \in FactoryConfigs(v) :
         LET r == Construct(config) IN
         /\ fc' = config
         /\ notifier' = r.notifier
         /\ facErr' = r.err
    /\ UNCHANGED <<call, srSeen, pc, frame, sent, ret>>

\* Notify is called on the notifier the factory returned and runs up to
\* SendWebhookSync, where it waits for the transport.  Notify changes no
\* state of the notifier, so one call is recorded per behaviour; repeated
\* and concurrent calls are those of SpecConc.
NotifyCall ==
    /\ Built
    /\ ~ call.made
    /\ \E in \in Inputs(notifier.version) :
         LET r == NotifySend(notifier, in) IN
         call' = [made |-> TRUE, in |-> in, transport |-> "",
                  sends |-> r.sends, returned |-> r.returned, ret |-> r.ret]
    /\ UNCHANGED <<fc, notifier, facErr, srSeen, pc, frame, sent, ret>>

\* SendWebhookSync answers and Notify returns.
NotifyReturnCall ==
    /\ call.made
    /\ ~ call.returned
    /\ \E transportErr \in TransportErrs :
         LET r == NotifyReturn(call.sends, transportErr) IN
         call' = [made |-> TRUE, in |-> call.in, transport |-> transportErr,
                  sends |-> r.sends, returned |-> r.returned, ret |-> r.ret]
    /\ UNCHANGED <<fc, notifier, facErr, srSeen, pc, frame, sent, ret>>

\* A SendResolved call on the ngalert notifier.
SendResolvedCall ==
    /\ Built
    /\ notifier.version \in NgVersions
    /\ srSeen' = srSeen \cup {SendResolved(notifier)}
    /\ UNCHANGED <<fc, notifier, facErr, call, pc, frame, sent, ret>>

Next == WebexFactory \/ NotifyCall \/ NotifyReturnCall \/ SendResolvedCall

Spec == Init /\ [][Next]_vars

----------------------------------------------------------------------------
(* Concurrent callers: Notify step by step *)

\* The inputs the concurrent callers draw from.
ConcInputs(v) ==
    IF v \in NgVersions
    THEN {[as |-> <<[status |-> "firing", image |-> "https://img.test/1.png"]>>,
           render |-> "ok"],
          [as |-> <<[status |-> "resolved", image |-> "fetch-error"]>>,
           render |-> "contentErr"],
          [as |-> <<[status |-> "resolved", image |-> ""],
                    [status |-> "firing", image |-> "https://img.test/1.png"]>>,
           render |-> "titleErr"]}
    ELSE {[State |-> "alerting", Title |-> "[Alerting] cpu", Name |-> "cpu",
           Message |-> "cpu is high"],
          [State |-> "ok", Title |-> "[Alerting] cpu", Name |-> "cpu",
           Message |-> ""],
          [State |-> "no_data", Title |-> "[Alerting] cpu", Name |-> "cpu",
           Message |-> "cpu is high"]}

\* Variant of Frame: the locals are kept in one place shared by all callers.
FrameShared(c) == 1

\* Where a call keeps tmpl, stateEmoji, message, body, data, headers and
\* cmd: they are locals of the call, one frame per caller.
Frame(c) == c

\* Variant of Outcome that goes back to sending when the transport failed.
OutcomeRetry(err) == IF err # "" THEN "payloadBuilt" ELSE "delivered"

\* The step an attempt ends in.
Outcome(err) == IF err # "" THEN "failed" ELSE "delivered"

\* A caller enters Notify with its arguments.
Begin(c) ==
    /\ Built
    /\ pc[c] \in {"idle", "delivered", "failed"}
    /\ \E in \in ConcInputs(notifier.version) :
         /\ frame' = [frame EXCEPT ![Frame(c)] = [NoFrame EXCEPT !.in = in]]
         /\ ret' = [ret EXCEPT ![c] = [called |-> TRUE, in |-> in, returned |-> FALSE]]
    /\ pc' = [pc EXCEPT ![c] = "rendering"]
    /\ sent' = [sent EXCEPT ![c] = <<>>]
    /\ UNCHANGED <<fc, notifier, facErr, call, srSeen>>

\* The message is rendered and the image lines are appended.
Render(c) ==
    /\ pc[c] = "rendering"
    /\ ~ frame[Frame(c)].rendered
    /\ frame' = [frame EXCEPT ![Frame(c)].message = Message(notifier, frame[Frame(c)].in),
                              ![Frame(c)].rendered = TRUE]
    /\ UNCHANGED <<fc, notifier, facErr, call, srSeen, pc, sent, ret>>

\* Body, headers and command are built.
Build(c) ==
    /\ pc[c] = "rendering"
    /\ frame[Frame(c)].rendered
    /\ frame' = [frame EXCEPT ![Frame(c)].cmd = Command(notifier, frame[Frame(c)].message),
                              ![Frame(c)].built = TRUE]
    /\ pc' = [pc EXCEPT ![c] = "payloadBuilt"]
    /\ UNCHANGED <<fc, notifier, facErr, call, srSeen, sent, ret>>

\* SendWebhookSync is entered with the command.
Send(c) ==
    /\ pc[c] = "payloadBuilt"
    /\ sent' = [sent EXCEPT ![c] = Append(sent[c], frame[Frame(c)].cmd)]
    /\ pc' = [pc EXCEPT ![c] = "delivering"]
    /\ UNCHANGED <<fc, notifier, facErr, call, srSeen, frame, ret>>

\* SendWebhookSync returns and Notify returns.
Deliver(c) ==
    /\ pc[c] = "delivering"
    /\ \E transportErr \in TransportErrs :
         /\ ret' = [ret EXCEPT ![c] = [called |-> TRUE, in |-> ret[c].in, returned |-> TRUE,
                                       transport |-> transportErr,
                                       result |-> Return(transportErr)]]
         /\ pc' = [pc EXCEPT ![c] = Outcome(transportErr)]
    /\ UNCHANGED <<fc, notifier, facErr, call, srSeen, frame, sent>>

NextConc ==
    \/ WebexFactory
    \/ SendResolvedCall
    \/ \E c \in Callers : Begin(c) \/ Render(c) \/ Build(c) \/ Send(c) \/ Deliver(c)

SpecConc == Init /\ [][NextConc]_vars

----------------------------------------------------------------------------
(* Claims *)

\* The required values of a configuration in the order its constructor
\* checks them, the secret of the ngalert room API as the decrypt function
\* resolves it.
RequiredValues(config) ==
    CASE config.version \in WebhookVersions ->
           <<<<"webhook_url", MustString(config.Settings.webhook_url, "")>>>>
      [] config.version = "ngRoom" ->
           <<<<"url", MustString(config.Settings.url, "")>>,
             <<"room_id", MustString(config.Settings.room_id, "")>>,
             <<"api_secret", decryptFunc(config.SecureSettings,
                                         MustString(config.Settings.api_secret, ""))>>>>
      [] config.version = "legacyRoom" ->
           <<<<"url", MustString(config.Settings.url, "")>>,
             <<"webexToken", MustString(config.Settings.webexToken, "")>>,
             <<"roomId", MustString(config.Settings.roomId, "")>>>>

\* The same, every value as the raw settings blob gives it.
RawRequiredValues(config) ==
    IF config.version = "ngRoom"
    THEN <<<<"url", MustString(config.Settings.url, "")>>,
           <<"room_id", MustString(config.Settings.room_id, "")>>,
           <<"api_secret", MustString(config.Settings.api_secret, "")>>>>
    ELSE RequiredValues(config)

\* The first field of a list of required values that is empty, "" if none.
FirstEmpty(values) ==
    LET empty == {i \in 1..Len(values) : values[i][2] = ""} IN
    IF empty = {} THEN ""
    ELSE values[CHOOSE i \in empty : \A j \in empty : i <= j][1]

\* The validation error that names a field.
ErrorNaming(version, field) ==
    CASE version = "ngWebhook" -> "could not find Webex Webhook URL in settings"
      [] version = "ngRoom" /\ field = "url" -> "could not find Webex URL in settings"
      [] version = "ngRoom" /\ field = "room_id" -> "could not find Webex Room ID in settings"
      [] version = "ngRoom" /\ field = "api_secret" -> "could not find Webex API secret in settings"
      [] version = "legacyWebhook" -> "Could not find webhook_url property in settings"
      [] version = "legacyRoom" /\ field = "url" -> "Could not find url property in settings"
      [] version = "legacyRoom" /\ field = "webexToken" -> "Could not find webexToken property in settings"
      [] version = "legacyRoom" /\ field = "roomId" -> "Could not find roomId property in settings"

FactoryCalled == fc.version # "none"

\* C1 (as amended): a configuration with an empty required value - the
\* secret of the ngalert room API being the value the decrypt function
\* resolves, with the raw setting as fallback - is rejected with the error
\* naming the first empty value in checking order, and no notifier is built.
C1_EmptyRequiredRejected ==
    FactoryCalled =>
        LET field == FirstEmpty(RequiredValues(fc)) IN
        field # "" => notifier = Nil /\ facErr = ErrorNaming(fc.version, field)

C1_Witness ==
    /\ FactoryCalled
    /\ fc.version = "ngRoom"
    /\ FirstEmpty(RequiredValues(fc)) = "api_secret"
    /\ notifier = Nil
    /\ facErr = "could not find Webex API secret in settings"

\* C1 (as stated): a raw settings blob in which a required key is missing or
\* coerces to "" is rejected with the error naming the first such key.
C1_RawMissingRejected ==
    FactoryCalled =>
        LET field == FirstEmpty(RawRequiredValues(fc)) IN
        field # "" => notifier = Nil /\ facErr = ErrorNaming(fc.version, field)

\* C2: a Notify call hands exactly one POST to the transport, while it
\* waits for the transport and after it returned, and returns (false, err)
\* when the transport returned err, (true, nil) when it returned nil.
C2_OneSendResultFromTransport ==
    call.made =>
        /\ Len(call.sends) = 1
        /\ call.sends[1].HttpMethod = "POST"
        /\ call.returned =>
               /\ call.transport # "" =>
                      call.ret = [delivered |-> FALSE, err |-> call.transport]
               /\ call.transport = "" => call.ret = [delivered |-> TRUE, err |-> ""]

C2_Witness ==
    /\ call.made
    /\ call.returned
    /\ call.transport = "context canceled"
    /\ Len(call.sends) = 1
    /\ call.ret = [delivered |-> FALSE, err |-> "context canceled"]

\* The value of a key in a marshalled body, <<"absent">> when it has none.
Member(body, key) ==
    LET at == {i \in 1..Len(body) : body[i][1] = key} IN
    IF at = {} THEN <<"absent">> ELSE body[CHOOSE i \in at : TRUE][2]

HasMember(body, key) == \E i \in 1..Len(body) : body[i][1] = key

\* C4: in the room API shape the Authorization header is "Bearer " and the
\* secret the decrypt function resolves for the configured token, and the
\* body does not contain the secret; the webhook shape has no
\* Authorization header.
C4_AuthorizationIsResolvedSecret ==
    call.made =>
        LET cmd == call.sends[1]
            secret == decryptFunc(fc.SecureSettings,
                          MustString(IF fc.version = "ngRoom"
                                     THEN fc.Settings.api_secret
                                     ELSE fc.Settings.webexToken, ""))
        IN IF fc.version \in RoomVersions
           THEN /\ cmd.HttpHeader = {<<"Authorization", <<"Bearer ", secret>>>>}
                /\ \A i \in 1..Len(cmd.Body) : \A k \in 1..Len(cmd.Body[i][2]) :
                       cmd.Body[i][2][k] # secret
           ELSE \A h \in cmd.HttpHeader : h[1] # "Authorization"

\* C5: in the webhook shape the body has the key markdown exactly when the
\* message is not empty, its value is the message, and there is no
\* Authorization header.
C5_MarkdownIffMessage ==
    (call.made /\ fc.version \in WebhookVersions) =>
        LET cmd == call.sends[1]
            message == Message(notifier, call.in)
        IN /\ HasMember(cmd.Body, "markdown") <=> (message # <<>>)
           /\ HasMember(cmd.Body, "markdown") => Member(cmd.Body, "markdown") = message
           /\ cmd.HttpHeader = {}

\* C6: the message of a batch starts with the check mark when every alert
\* of the batch is resolved and with the warning sign when some alert is
\* firing, and with nothing else.
C6_StateSymbol ==
    (call.made /\ fc.version \in NgVersions) =>
        LET as == call.in.as
            symbol == Member(call.sends[1].Body, "markdown")[1]
        IN /\ (\A i \in 1..Len(as) : as[i].status = "resolved") => symbol = CheckMark
           /\ (\E i \in 1..Len(as) : as[i].status = "firing") => symbol = WarningSign
           /\ symbol \in {CheckMark, WarningSign}

C6_Witness ==
    /\ call.made
    /\ fc.version \in NgVersions
    /\ Len(call.in.as) = 2
    /\ call.in.as[1].status = "resolved"
    /\ call.in.as[2].status = "firing"
    /\ Member(call.sends[1].Body, "markdown")[1] = WarningSign

\* A call in which the template or an image failed.
RenderOrImageFailed ==
    /\ call.made
    /\ fc.version \in NgVersions
    /\ \/ call.in.render # "ok"
       \/ \E i \in 1..Len(call.in.as) : call.in.as[i].image = "fetch-error"

\* C7: when the template or an image fails, Notify still sends, and the
\* error it returns is nil or the error of the transport.
C7_RenderErrorsAbsorbed ==
    RenderOrImageFailed =>
        /\ Len(call.sends) = 1
        /\ call.returned =>
               /\ call.ret.err = call.transport
               /\ call.ret.delivered = (call.transport = "")

C7_Witness ==
    /\ RenderOrImageFailed
    /\ call.in.render = "titleErr"
    /\ \E i \in 1..Len(call.in.as) : call.in.as[i].image = "fetch-error"
    /\ Len(call.sends) = 1
    /\ call.returned
    /\ call.ret = [delivered |-> TRUE, err |-> ""]

\* C3: for the ngalert notifier, before and after Notify calls,
\* SendResolved() is false exactly when the DisableResolveMessage of the
\* configuration is true.
C3_SendResolvedIsNegatedFlag ==
    (Built /\ fc.version \in NgVersions) =>
        /\ (SendResolved(notifier) = FALSE) <=> (fc.DisableResolveMessage = TRUE)
        /\ \A answer \in srSeen : (answer = FALSE) <=> (fc.DisableResolveMessage = TRUE)

C3_Witness ==
    /\ Built
    /\ fc.version \in NgVersions
    /\ fc.DisableResolveMessage
    /\ srSeen = {FALSE}
    /\ \E c \in Callers : pc[c] \in {"delivered", "failed"}

\* C9: under every interleaving of Notify calls, what a call sent and what
\* it returned are what Notify as a whole gives for the arguments of that
\* call and the answer of the transport to it, and the notifier is the one
\* the factory built.
C9_CallsDoNotInterfere ==
    /\ Built => notifier = Construct(fc).notifier
    /\ \A c \in Callers :
         /\ sent[c] # <<>> => sent[c] = Notify(notifier, ret[c].in, "").sends
         /\ (ret[c].called /\ ret[c].returned) =>
                ret[c].result = Notify(notifier, ret[c].in, ret[c].transport).ret

C9_Witness ==
    \E c, d \in Callers :
        /\ c # d
        /\ pc[c] = "failed"
        /\ pc[d] = "delivering"
        /\ ret[c].in # ret[d].in
        /\ sent[c] # sent[d]
        /\ Len(sent[c]) = 1
        /\ Len(sent[d]) = 1

\* C10: a command is sent only for a notifier whose configuration passed
\* validation; an attempt goes from rendering to payloadBuilt to delivering
\* to delivered or failed, sending once, on entering delivering; and the
\* only step after delivered or failed is the start of a new attempt.
C10_AttemptOrder ==
    [][\A c \in Callers :
          /\ sent'[c] # <<>> =>
                 (Built /\ facErr = "" /\ FirstEmpty(RequiredValues(fc)) = "")
          /\ pc'[c] # pc[c] =>
                 \/ /\ pc[c] \in {"idle", "delivered", "failed"}
                    /\ pc'[c] = "rendering"
                    /\ Built
                    /\ sent'[c] = <<>>
                    /\ ~ ret'[c].returned
                 \/ /\ pc[c] = "rendering"
                    /\ pc'[c] = "payloadBuilt"
                    /\ sent'[c] = <<>>
                 \/ /\ pc[c] = "payloadBuilt"
                    /\ pc'[c] = "delivering"
                    /\ Len(sent'[c]) = 1
                 \/ /\ pc[c] = "delivering"
                    /\ pc'[c] \in {"delivered", "failed"}
                    /\ (pc'[c] = "failed") <=> (ret'[c].transport # "")
                    /\ sent'[c] = sent[c]
          /\ pc'[c] = pc[c] => sent'[c] = sent[c]
      ]_vars

C10_Witness ==
    \E c, d \in Callers :
        /\ pc[c] = "failed"
        /\ Len(sent[c]) = 1
        /\ ret[c].result = [delivered |-> FALSE, err |-> "connection refused"]
        /\ pc[d] = "delivered"

====
